---- MODULE Spec2Model ----
(***************************************************************************)
(* Change-detection cache and analytics pipeline of intelliflow-backend:   *)
(* CacheService (three NodeCache instances and the transaction hash), the  *)
(* forecast, transactions and credit-score request handlers, and the two   *)
(* outbound clients.  Handlers are async functions on a single-threaded    *)
(* event loop: a handler runs without interruption between two awaits.     *)
(***************************************************************************)
EXTENDS Integers, Sequences, FiniteSets, TLC

\* ------------------------------------------------------------------ bounds
MaxRows == 2
MaxDbWrites == 2
MaxRequests == 3
MaxTicks == 2
MaxEvents == 5
MaxCalls == 3
MaxScoreTxns == 5
MaxForecastPoints == 2
MaxSeries == 3
MaxHashRows == 2

\* ------------------------------------------------------- program constants
CLASSIFICATION_CACHE_TTL == 86400
FORECAST_CACHE_TTL == 86400
TRANSACTION_HASH_TTL == 86400
\* seconds the clock advances in one Tick of the model (one time-to-live)
TickStep == 86400
DefaultMinTransactions == 2
DefaultDays == 30
MaxDays == 365
\* minimum number of transactions the forecasting engine accepts (spec 4.5)
MinimumRequired == 2

\* JavaScript null and undefined, kept apart from every amount and id
Null == 0 - 1
Undefined == 0 - 2

Users == {<<"a">>}
Slots == {1, 2}
\* the query strings of GET /api/forecast that are tried: days and minTransactions, 0
\* standing for "not given"
ForecastQueries ==
    {[days |-> 0, minTransactions |-> 0],
     [days |-> 0, minTransactions |-> 1],
     [days |-> 7, minTransactions |-> 0]}
\* the (debit, credit) pairs a stored row may carry; a row is inserted with the first
InsertedAmounts == [debit |-> Null, credit |-> 100]
AmountChoices == {InsertedAmounts, [debit |-> 50, credit |-> 0]}

\* ------------------------------------------------------ strings as the code builds them
Digits == <<"0", "1", "2", "3", "4", "5", "6", "7", "8", "9", "a", "b", "c", "d",
            "e", "f", "g", "h", "i", "j", "k", "l", "m", "n", "o", "p", "q", "r",
            "s", "t", "u", "v", "w", "x", "y", "z">>

\* UTF-16 code unit of the characters that occur in the hashed text
CharCode(c) ==
    CASE c = "|" -> 124
      [] c = "-" -> 45
      [] c = "u" -> 117
      [] c = "n" -> 110
      [] c = "d" -> 100
      [] c = "e" -> 101
      [] c = "f" -> 102
      [] c = "i" -> 105
      [] c = "l" -> 108
      [] OTHER -> 48 + (CHOOSE k \in 0..9 : Digits[k + 1] = c)

RECURSIVE NatToChars(_)
\* String(n) of a non-negative integer, as a sequence of characters
NatToChars(n) ==
    IF n < 10 THEN <<Digits[n + 1]>>
    ELSE NatToChars(n \div 10) \o <<Digits[(n % 10) + 1]>>

\* `${v}` of a number, null or undefined
TemplateChars(v) ==
    IF v = Undefined THEN <<"u", "n", "d", "e", "f", "i", "n", "e", "d">>
    ELSE IF v = Null THEN <<"n", "u", "l", "l">>
    ELSE NatToChars(v)

\* the transaction_date column of the row inserted d-th: "2025-01-0d"
DateChars(d) == <<"2", "0", "2", "5", "-", "0", "1", "-", "0", Digits[d + 1]>>

\* A 32-bit integer is kept as its two 16-bit halves <<hi, lo>> (two's complement),
\* so that no intermediate value leaves the range of TLC's 32-bit integers.
Half == 65536

\* hash << 5
Shl5(w) ==
    LET lo == w[2] * 32
    IN  <<(w[1] * 32 + (lo \div Half)) % Half, lo % Half>>

\* (hash << 5) + char: the subtraction of hash left out
HashStepShiftOnly(w, char) ==
    LET s  == Shl5(w)
        lo == s[2] + char
    IN  <<(s[1] + (lo \div Half)) % Half, lo % Half>>

\* ((hash << 5) - hash) + char, then hash & hash (ToInt32)
HashStep(w, char) ==
    LET s  == Shl5(w)
        lo == (s[2] - w[2]) + char
    IN  <<((s[1] - w[1]) + (lo \div Half)) % Half, lo % Half>>

\* the signed value of a 32-bit word
Signed(w) == IF w[1] >= 32768 THEN (w[1] - Half) * Half + w[2] ELSE w[1] * Half + w[2]

RECURSIVE Join(_, _)
\* Array.prototype.join
Join(parts, sep) ==
    IF Len(parts) = 0 THEN <<>>
    ELSE IF Len(parts) = 1 THEN parts[1]
    ELSE parts[1] \o sep \o Join(Tail(parts), sep)

RECURSIVE HashLoop(_, _, _)
\* the for loop of generateTransactionHash over data.charCodeAt(i)
HashLoop(data, i, hash) ==
    IF i > Len(data) THEN hash
    ELSE LET next == HashStep(hash, CharCode(data[i]))
         IN  \* the value is computed here, before the next iteration uses it
             IF next[1] < Half /\ next[2] < Half
             THEN HashLoop(data, i + 1, next) ELSE <<0, 0>>

RECURSIVE Base36(_)
Base36(n) ==
    IF n < 36 THEN Digits[n + 1]
    ELSE Base36(n \div 36) \o Digits[(n % 36) + 1]

\* Number.prototype.toString(36) of a 32-bit integer
ToString36(w) ==
    LET h == Signed(w)
    IN  IF w = <<32768, 0>> THEN "-zik0zk"
        ELSE IF h < 0 THEN "-" \o Base36(0 - h) ELSE Base36(h)

RowText(t) ==
    TemplateChars(t.id) \o <<"|">> \o DateChars(t.transaction_date) \o <<"|">>
        \o TemplateChars(t.debit) \o <<"|">> \o TemplateChars(t.credit)

generateTransactionHash(transactions) ==
    IF Len(transactions) = 0 THEN "empty"
    ELSE LET data == Join([i \in 1..Len(transactions) |-> RowText(transactions[i])], <<"|">>)
         IN  ToString36(HashLoop(data, 1, <<0, 0>>))

\* ------------------------------------------------------------------ state
VARIABLES
    tables,                 \* table transactions_duplicate_entry: user id -> rows in date order
    transactionHashCache,   \* NodeCache data: key -> [v: hash, t: expiry time]
    forecastCache,          \* NodeCache data: key -> [v: response data, t: expiry time]
    classificationCache,    \* NodeCache data: key -> [v: classified rows, t: expiry time]
    now,                    \* Date.now(), in seconds
    req,                    \* the requests being handled, one per slot
    running,                \* the slot whose handler holds the event loop, or 0
    sent,                   \* the response written by the last step, with its request
    computedFrom,           \* history: forecast key -> the rows its stored entry was
                            \* computed from
    served,                 \* history: what was asked and answered 200 from the rows stored
                            \* now and left recorded in the caches, with no entry expired
                            \* or cleared since, and the number of requests accepted till
                            \* the answer
    started,                \* requests accepted so far
    writes,                 \* writes to the stored rows so far
    faults,                 \* failed calls to the database, the engine, the categorizer
    etag,                   \* the ETag header of the last response that carried one
    call,                   \* a function called on its own: its name and arguments
    ret                     \* what that call returned

vars == <<tables, transactionHashCache, forecastCache, classificationCache, now, req,
          running, sent, computedFrom, served, started, writes, faults, etag,
          call, ret>>

caches == <<transactionHashCache, forecastCache, classificationCache>>

EmptyCache == [k \in {} |-> 0]

NoData == [forecast |-> <<>>, insight |-> <<>>,
           transactionCount |-> 0, forecastDays |-> 0, generatedAt |-> 0]

\* what a handler passes to res.json, with the status it set before
NoResp == [status |-> 0, cached |-> FALSE, forecast |-> NoData, transactions |-> <<>>,
           count |-> 0, score |-> <<>>, message |-> <<>>]

\* no If-None-Match header, no ETag header
NoETag == <<>>

\* createHash('md5').update(JSON.stringify(body)).digest('hex'): equal for equal bodies
\* and taken to differ for different ones; the status is no part of the body
ETagOf(resp) == <<[resp EXCEPT !.status = 0]>>

\* the query parameters of GET /api/transactions; Null and "" stand for "not given"
NoQuery == [startDate |-> Null, endDate |-> Null, minAmount |-> Null, type |-> ""]

Idle == [kind |-> "idle", pc |-> "idle", user |-> <<>>, days |-> 0, minTransactions |-> 0,
         query |-> NoQuery, ifNoneMatch |-> NoETag, id |-> 0,
         data |-> <<>>, cachedHash |-> "", hasChanged |-> FALSE,
         calls |-> <<>>, outbound |-> 0]

\* resp is the handler's answer, written the status that went out: 304 when the answer
\* was replaced by Not Modified
NoSent == [from |-> Idle, resp |-> NoResp, written |-> 0]

\* no function is called on its own
NoCall == [fn |-> "none"]

NoRet == [done |-> FALSE]

\* ------------------------------------------------------------- the stored rows
Reverse(s) == [i \in 1..Len(s) |-> s[Len(s) + 1 - i]]

\* .select("transaction_date, debit, credit") ... .order("transaction_date", ascending)
SelectDateDebitCredit(rows) ==
    [i \in 1..Len(rows) |-> [rows[i] EXCEPT !.id = Undefined]]

\* a comparison of a column with a number: no row with null in the column passes
Gte(column, n) == column # Null /\ column >= n

Gt(column, n) == column # Null /\ column > n

\* the optional filters of getMyTransactions, each applied when its parameters are given
Filtered(rows, query) ==
    SelectSeq(rows, LAMBDA t :
        /\ (query.startDate # Null /\ query.endDate # Null) =>
               (t.transaction_date >= query.startDate /\ t.transaction_date <= query.endDate)
        /\ query.minAmount # Null =>
               (Gte(t.debit, query.minAmount) \/ Gte(t.credit, query.minAmount))
        /\ query.type = "credit" => Gt(t.credit, 0)
        /\ query.type = "debit" => Gt(t.debit, 0))

\* .select("*") with the filters, then .order("transaction_date", descending)
SelectAll(rows, query) == Reverse(Filtered(rows, query))

\* ------------------------------------------------------------------ NodeCache
\* _check: an entry whose time is behind the clock is expired
Expired(cache, key) == key \in DOMAIN cache /\ cache[key].t < now

\* get that leaves expiry to the periodic sweep
HasUntilSwept(cache, key) == key \in DOMAIN cache

\* get: the value is there when the key is stored and not expired
Has(cache, key) == key \in DOMAIN cache /\ ~Expired(cache, key)

Del(cache, keys) == [k \in DOMAIN cache \ keys |-> cache[k]]

\* get deletes the entry it finds expired
AfterGet(cache, key) == IF Expired(cache, key) THEN Del(cache, {key}) ELSE cache

\* set with the cache's stdTTL
Put(cache, key, value, ttl) ==
    [k \in DOMAIN cache \cup {key} |->
        IF k = key THEN [v |-> value, t |-> now + ttl] ELSE cache[k]]

StartsWith(key, prefix) ==
    Len(prefix) <= Len(key) /\ SubSeq(key, 1, Len(prefix)) = prefix

\* ---------------------------------------------------------------- CacheService
HashKey(userId) == <<"t", "x", "_", "h", "a", "s", "h", "_">> \o userId

ClassificationKey(userId) ==
    <<"c", "l", "a", "s", "s", "i", "f", "i", "c", "a", "t", "i", "o", "n", "_">> \o userId

ForecastPrefix(userId) ==
    <<"f", "o", "r", "e", "c", "a", "s", "t", "_">> \o userId \o <<"_">>

ForecastKey(userId, days) == ForecastPrefix(userId) \o NatToChars(days)

\* the hash hasTransactionChanged reads, "" when get returns undefined
CachedHash(userId) ==
    IF Has(transactionHashCache, HashKey(userId))
    THEN transactionHashCache[HashKey(userId)].v ELSE ""

\* a first load reported as unchanged
HasChangedResultFirstLoadUnchanged(cachedHash, currentHash) ==
    IF cachedHash = "" THEN FALSE ELSE currentHash # cachedHash

\* the return value of hasTransactionChanged
HasChangedResult(cachedHash, currentHash) ==
    IF cachedHash = "" THEN TRUE ELSE currentHash # cachedHash

\* the hash stored on first load only, a changed hash never replacing it
HashCacheAfterFirstLoadOnly(userId, cachedHash, currentHash) ==
    IF cachedHash = ""
    THEN Put(AfterGet(transactionHashCache, HashKey(userId)), HashKey(userId),
             currentHash, TRANSACTION_HASH_TTL)
    ELSE transactionHashCache

\* the hash cache after hasTransactionChanged: set on first load and on change only
HashCacheAfter(userId, cachedHash, currentHash) ==
    IF cachedHash = "" \/ currentHash # cachedHash
    THEN Put(AfterGet(transactionHashCache, HashKey(userId)), HashKey(userId),
             currentHash, TRANSACTION_HASH_TTL)
    ELSE transactionHashCache

invalidateForecast(userId) ==
    Del(forecastCache, {k \in DOMAIN forecastCache : StartsWith(k, ForecastPrefix(userId))})

invalidateClassification(userId) ==
    Del(classificationCache, {ClassificationKey(userId)})

\* -------------------------------------------------------------- request parameters
Min(a, b) == IF a < b THEN a ELSE b

\* Math.min(Number(req.query.days) || 30, 365)
ParseDays(q) == Min(IF q = 0 THEN DefaultDays ELSE q, MaxDays)

\* Number(req.query.minTransactions) || 2
ParseMinTransactions(q) == IF q = 0 THEN DefaultMinTransactions ELSE q

\* the service right after start: empty caches, no request
Constructed ==
    /\ tables = [u \in Users |-> <<>>]
    /\ transactionHashCache = EmptyCache
    /\ forecastCache = EmptyCache
    /\ classificationCache = EmptyCache
    /\ now = 0
    /\ req = [r \in Slots |-> Idle]
    /\ running = 0
    /\ sent = NoSent
    /\ computedFrom = EmptyCache
    /\ served = {}
    /\ started = 0
    /\ writes = 0
    /\ faults = 0
    /\ etag = NoETag

Init ==
    /\ Constructed
    /\ call = NoCall
    /\ ret = NoRet

\* what has come from outside so far: row writes, requests, steps of the clock and
\* failures of the services called
Events == writes + started + now \div TickStep + faults

\* a call to the database, the engine or the categorizer fails
Fails == Events < MaxEvents /\ faults' = faults + 1

\* handlers that preempt one another, as threads would
EventLoopPreempted == TRUE

\* no handler is running: timers, new requests and awaited results are served only then
EventLoopFree == running = 0

\* a new request is handled in the first free slot
Free(r) == req[r].pc = "idle" /\ \A q \in Slots : q < r => req[q].pc # "idle"

\* the query strings of GET /api/transactions that are tried
TransactionQueries ==
    {NoQuery,
     [NoQuery EXCEPT !.type = "debit", !.minAmount = 50, !.startDate = 1, !.endDate = 1]}

\* rows numbered in date order, with the amounts given
RowsOf(amounts) ==
    [i \in 1..Len(amounts) |-> [id |-> i, transaction_date |-> i,
                                debit |-> amounts[i].debit, credit |-> amounts[i].credit]]

\* every list of rows a handler's query can return
QueryResults ==
    LET stored == {RowsOf(amounts) :
                      amounts \in UNION {[1..n -> AmountChoices] : n \in 0..MaxRows}}
    IN  {SelectDateDebitCredit(rows) : rows \in stored}
            \cup {SelectAll(rows, query) : rows \in stored, query \in TransactionQueries}

\* this.generateTransactionHash(transactions) of each of these lists, computed once
HashOfQueryResult == [transactions \in QueryResults |-> generateTransactionHash(transactions)]

\* the rows a handler's query returns now
QueryResult(kind, u, query) ==
    IF kind = "transactions" THEN SelectAll(tables[u], query)
    ELSE SelectDateDebitCredit(tables[u])

\* what request q asks for
Asked(q) == <<q.kind, q.user, q.days, q.query>>

\* after the step that answers request q, the caches hold the fingerprint of the rows q
\* read and a live entry for what q asked
Recorded(q) ==
    /\ Len(q.data) > 0
    /\ Has(transactionHashCache, HashKey(q.user))
    /\ transactionHashCache[HashKey(q.user)].v = HashOfQueryResult[q.data]
    /\ IF q.kind = "forecast"
       THEN Has(forecastCache', ForecastKey(q.user, q.days))
       ELSE Has(classificationCache', ClassificationKey(q.user))

\* res.json(...) as eTagMiddleware wraps it: the answer goes out with its ETag, or, when
\* the request's If-None-Match is that ETag, status 304 goes out with no body and no
\* ETag, whatever status the handler had set; the handler ends
Respond(r, resp) ==
    /\ req' = [req EXCEPT ![r] = Idle]
    /\ sent' = [from |-> req[r], resp |-> resp,
                written |-> IF req[r].ifNoneMatch = ETagOf(resp) THEN 304 ELSE resp.status]
    /\ etag' = IF req[r].ifNoneMatch = ETagOf(resp) THEN etag ELSE ETagOf(resp)
    /\ running' = 0
    /\ served' = IF /\ resp.status = 200
                    /\ req[r].kind \in {"forecast", "transactions"}
                    /\ req[r].data = QueryResult(req[r].kind, req[r].user, req[r].query)
                    /\ Recorded(req[r])
                    /\ \A e \in served : e[1] # Asked(req[r])
                 THEN served \cup {<<Asked(req[r]), started>>}
                 ELSE served

\* a step that writes no response
Silent == sent' = NoSent /\ served' = served /\ etag' = etag

\* ------------------------------------------------------------------ environment
\* a row is inserted into a user's table
DbInsert(u) ==
    /\ EventLoopFree
    /\ writes < MaxDbWrites
    /\ Events < MaxEvents
    /\ Len(tables[u]) < MaxRows
    /\ LET n == Len(tables[u]) + 1
       IN  tables' = [tables EXCEPT ![u] =
                @ \o <<[id |-> n, transaction_date |-> n,
                        debit |-> InsertedAmounts.debit,
                        credit |-> InsertedAmounts.credit]>>]
    /\ writes' = writes + 1
    /\ sent' = NoSent
    /\ served' = {e \in served : e[1][2] # u}
    /\ UNCHANGED <<caches, computedFrom, now, req, running, started, faults, call, ret, etag>>

\* the amounts of a stored row are edited
DbUpdate(u, i, amt) ==
    /\ EventLoopFree
    /\ writes < MaxDbWrites
    /\ Events < MaxEvents
    /\ i \in 1..Len(tables[u])
    /\ <<tables[u][i].debit, tables[u][i].credit>> # <<amt.debit, amt.credit>>
    /\ tables' = [tables EXCEPT ![u][i].debit = amt.debit, ![u][i].credit = amt.credit]
    /\ writes' = writes + 1
    /\ sent' = NoSent
    /\ served' = {e \in served : e[1][2] # u}
    /\ UNCHANGED <<caches, computedFrom, now, req, running, started, faults, call, ret, etag>>

\* time passes, between requests or while handlers wait
Tick ==
    /\ EventLoopFree
    /\ now < MaxTicks * TickStep
    /\ Events < MaxEvents
    /\ now' = now + TickStep
    /\ sent' = NoSent
    /\ served' = {}
    /\ UNCHANGED <<tables, caches, computedFrom, req, running, started, writes, faults, call, ret, etag>>

SweepOf(cache) == Del(cache, {k \in DOMAIN cache : Expired(cache, k)})

\* the checkperiod timer of the three caches
Sweep ==
    /\ EventLoopFree
    /\ \E k \in DOMAIN transactionHashCache \cup DOMAIN forecastCache
                   \cup DOMAIN classificationCache :
           \/ Expired(transactionHashCache, k)
           \/ Expired(forecastCache, k)
           \/ Expired(classificationCache, k)
    /\ transactionHashCache' = SweepOf(transactionHashCache)
    /\ forecastCache' = SweepOf(forecastCache)
    /\ computedFrom' = [k \in DOMAIN forecastCache' \cap DOMAIN computedFrom |-> computedFrom[k]]
    /\ classificationCache' = SweepOf(classificationCache)
    /\ Silent
    /\ UNCHANGED <<tables, now, req, running, started, writes, faults, call, ret>>

\* a flush that drops the expired entries only
flushExpired(cache) == SweepOf(cache)

\* NodeCache.flushAll: no entry is left
flushAll(cache) == EmptyCache

\* DELETE /api/cache/clear, a request as the others are
ClearAll ==
    /\ EventLoopFree
    /\ started < MaxRequests
    /\ Events < MaxEvents
    /\ started' = started + 1
    /\ DOMAIN transactionHashCache \cup DOMAIN forecastCache
           \cup DOMAIN classificationCache # {}
    /\ classificationCache' = flushAll(classificationCache)
    /\ forecastCache' = flushAll(forecastCache)
    /\ transactionHashCache' = flushAll(transactionHashCache)
    /\ computedFrom' = [k \in DOMAIN forecastCache' \cap DOMAIN computedFrom |-> computedFrom[k]]
    /\ sent' = NoSent
    /\ served' = {}
    /\ UNCHANGED <<tables, now, req, running, writes, faults, call, ret, etag>>

\* ------------------------------------------------------------ calculateCreditScore
LargeDebitThreshold == 50000
LowCreditThreshold == 20000

RECURSIVE Sum(_)
\* values.reduce((a, b) => a + b, 0)
Sum(values) == IF Len(values) = 0 THEN 0 ELSE Head(values) + Sum(Tail(values))

\* v ?? 0
OrZero(v) == IF v = Null THEN 0 ELSE v

Max(a, b) == IF a > b THEN a ELSE b

\* values.length || 1
LengthOrOne(values) == IF Len(values) = 0 THEN 1 ELSE Len(values)

\* transactions.filter(t => new Date(t.transaction_date) >= sixMonthsAgo), dates as day numbers
RecentTxns(transactions, sixMonthsAgo) ==
    SelectSeq(transactions, LAMBDA t : t.transaction_date >= sixMonthsAgo)

\* recentTxns.filter(t => (t.debit ?? 0) > 50000)
LargeDebits(recentTxns) ==
    SelectSeq(recentTxns, LAMBDA t : OrZero(t.debit) > LargeDebitThreshold)

Debits(recentTxns) == [i \in 1..Len(recentTxns) |-> OrZero(recentTxns[i].debit)]

Credits(recentTxns) == [i \in 1..Len(recentTxns) |-> OrZero(recentTxns[i].credit)]

\* a mean credit equal to the threshold counted as low
LowAverageCreditInclusive(recentTxns) ==
    Sum(Credits(recentTxns)) <= LowCreditThreshold * LengthOrOne(recentTxns)

\* avgCredit < 20000, with avgCredit = sum / (recentTxns.length || 1)
LowAverageCredit(recentTxns) ==
    Sum(Credits(recentTxns)) < LowCreditThreshold * LengthOrOne(recentTxns)

\* a mean forecast of zero counted as positive
PositiveForecastOrZero(forecastValues) == Sum(forecastValues) >= 0

\* avgForecastCashflow > 0, with the mean = sum / (forecastValues.length || 1)
PositiveForecast(forecastValues) == Sum(forecastValues) > 0

\* stdDev > mean * 0.5.  With n = length || 1, S the sum and Q the sum of squares,
\* variance = (n*Q - S*S) / (n*n) and mean = S / n; stdDev is not negative, so the
\* comparison is true for S < 0 and is 4 * (n*Q - S*S) > S*S otherwise.
HighForecastVolatility(forecastValues) ==
    LET n == LengthOrOne(forecastValues)
        S == Sum(forecastValues)
        Q == Sum([i \in 1..Len(forecastValues) |-> forecastValues[i] * forecastValues[i]])
    IN  IF S < 0 THEN TRUE ELSE 4 * (n * Q - S * S) > S * S

\* the rules in the order the code applies them: <<fires, change of the score, factor>>
ScoreRules(transactions, forecastValues, sixMonthsAgo) ==
    LET recentTxns == RecentTxns(transactions, sixMonthsAgo)
    IN  << <<Len(recentTxns) < 5, 0 - 20, "Low transaction frequency in last 6 months">>,
           <<Len(LargeDebits(recentTxns)) > 3, 0 - 15, "Multiple large debit transactions">>,
           <<LowAverageCredit(recentTxns), 0 - 20, "Low average monthly credit">>,
           <<Sum(Debits(recentTxns)) > Sum(Credits(recentTxns)), 0 - 25,
             "Total debits exceed credits">>,
           <<PositiveForecast(forecastValues), 10, "Positive predicted cashflow trend">>,
           <<~PositiveForecast(forecastValues), 0 - 15, "Negative predicted cashflow trend">>,
           <<HighForecastVolatility(forecastValues), 0 - 10,
             "High volatility in predicted cashflow">> >>

\* the rules that fire
FiredRules(transactions, forecastValues, sixMonthsAgo) ==
    SelectSeq(ScoreRules(transactions, forecastValues, sixMonthsAgo), LAMBDA rule : rule[1])

\* score before Math.max(0, Math.min(score, 100))
ScoreBeforeClamp(transactions, forecastValues, sixMonthsAgo) ==
    LET fired == FiredRules(transactions, forecastValues, sixMonthsAgo)
    IN  100 + Sum([i \in 1..Len(fired) |-> fired[i][2]])

\* a score returned as computed
ClampOmitted(score) == score

\* Math.max(0, Math.min(score, 100))
Clamp(score) == Max(0, Min(score, 100))

\* factors, with the statement pushed when the list is empty
Factors(transactions, forecastValues, sixMonthsAgo) ==
    LET fired   == FiredRules(transactions, forecastValues, sixMonthsAgo)
        factors == [i \in 1..Len(fired) |-> fired[i][3]]
    IN  IF Len(factors) = 0 THEN <<"Good credit behavior observed">> ELSE factors

\* forecast.map(p => p.predicted_cashflow)
ForecastValues(forecast) == [i \in 1..Len(forecast) |-> forecast[i].predicted_cashflow]

calculateCreditScore(transactions, forecast, sixMonthsAgo) ==
    LET forecastValues == ForecastValues(forecast)
    IN  [score |-> Clamp(ScoreBeforeClamp(transactions, forecastValues, sixMonthsAgo)),
         factors |-> Factors(transactions, forecastValues, sixMonthsAgo)]

\* ------------------------------------------------- InsightService.generateInsights
\* A statement is a tuple: its text, then the values its template inserts.  A mean is
\* kept as the fraction num / den.
TrendUp == "Cashflow is expected to increase steadily over the forecast period."
TrendDown ==
    "Cashflow is projected to decline. You may need to review expenses or increase revenue streams."
TrendFlat == "Cashflow is stable with no significant upward or downward shift."
AverageNegative ==
    "Average cashflow is negative, which may signal potential liquidity challenges."
AverageBelowStart ==
    "Average cashflow is below the starting value. This could indicate weakening financial momentum."
AveragePositive ==
    "Average cashflow is positive, suggesting moderate financial strength across the forecast period."
NegativePeriods ==
    "There are projected periods of negative cashflow. Consider preparing cash reserves."
NoNegativePeriods ==
    "No negative cashflow periods detected, indicating consistent operational health."
VolatilityHigh ==
    "Cashflow shows high volatility. This may require tighter financial planning and monitoring."
VolatilityLow ==
    "Cashflow exhibits low volatility, indicating predictable financial performance."
PeakText == "Expected peak cashflow occurs around"
LowText == "Lowest projected cashflow occurs around"
BurnText == "Estimated average monthly burn rate is"

RECURSIVE MinOf(_)
\* Math.min(...values)
MinOf(values) ==
    IF Len(values) = 1 THEN values[1] ELSE Min(Head(values), MinOf(Tail(values)))

RECURSIVE MaxOf(_)
\* Math.max(...values)
MaxOf(values) ==
    IF Len(values) = 1 THEN values[1] ELSE Max(Head(values), MaxOf(Tail(values)))

\* values.lastIndexOf(x): the last index holding x
LastIndexOf(values, x) ==
    CHOOSE i \in 1..Len(values) : values[i] = x /\ \A j \in (i + 1)..Len(values) : values[j] # x

\* values.indexOf(x): the first index holding x
IndexOf(values, x) ==
    CHOOSE i \in 1..Len(values) : values[i] = x /\ \A j \in 1..(i - 1) : values[j] # x

Abs(x) == IF x < 0 THEN 0 - x ELSE x

\* The argument is [given, points]: given is FALSE for a null or undefined argument.
\* a series with fewer than two points treated as no data
NoPredictionsOrSingle(predictions) ==
    ~predictions.given \/ Len(predictions.points) <= 1

\* !predictions || predictions.length === 0
NoPredictions(predictions) ==
    ~predictions.given \/ Len(predictions.points) = 0

\* values.filter(v => v <= 0)
NegativesOrZero(values) == SelectSeq(values, LAMBDA v : v <= 0)

\* values.filter(v => v < 0)
Negatives(values) == SelectSeq(values, LAMBDA v : v < 0)

\* a spread equal to half the mean counted as high
HighVolatilityOrEqual(values) ==
    2 * Len(values) * (MaxOf(values) - MinOf(values)) >= Sum(values)

\* volatility > avg * 0.5, with volatility = maxVal - minVal and avg = sum / length
HighVolatility(values) ==
    2 * Len(values) * (MaxOf(values) - MinOf(values)) > Sum(values)

\* the statements pushed for a non-empty series, in order
InsightStatements(values, dates) ==
    LET n          == Len(values)
        first      == values[1]
        last       == values[n]
        sum        == Sum(values)
        minVal     == MinOf(values)
        maxVal     == MaxOf(values)
        trend      == last - first
        negatives  == Negatives(values)
    IN  << <<IF trend > 0 THEN TrendUp ELSE IF trend < 0 THEN TrendDown ELSE TrendFlat>>,
           \* avg < 0, avg < first with avg = sum / n
           <<IF sum < 0 THEN AverageNegative
             ELSE IF sum < first * n THEN AverageBelowStart ELSE AveragePositive>>,
           <<IF \E i \in 1..n : values[i] < 0 THEN NegativePeriods ELSE NoNegativePeriods>>,
           <<IF HighVolatility(values) THEN VolatilityHigh ELSE VolatilityLow>>,
           <<PeakText, dates[IndexOf(values, maxVal)], maxVal>>,
           <<LowText, dates[IndexOf(values, minVal)], minVal>> >>
        \o (IF Len(negatives) > 0
            THEN << <<BurnText, Abs(Sum(negatives)), Len(negatives)>> >>
            ELSE <<>>)

\* a summary that never says steady
SummaryTrendNeverSteady(trend) ==
    IF trend >= 0 THEN "positive upward trend" ELSE "decline in projected cashflow"

\* the trend phrase of the summary sentence
SummaryTrend(trend) ==
    IF trend > 0 THEN "positive upward trend"
    ELSE IF trend < 0 THEN "decline in projected cashflow"
    ELSE "steady cashflow movement"

generateInsights(predictions) ==
    IF NoPredictions(predictions)
    THEN [summary |-> <<"No forecast data available">>, insights |-> <<>>, stats |-> <<>>]
    ELSE LET points == predictions.points
             values == [i \in 1..Len(points) |-> points[i].value]
             dates  == [i \in 1..Len(points) |-> points[i].date]
             trend  == values[Len(values)] - values[1]
             avg    == [num |-> Sum(values), den |-> Len(values)]
         IN  [summary |-> <<"Forecast from", dates[1], "to", dates[Len(dates)], "shows a",
                            SummaryTrend(trend),
                            "with an average forecast value of", avg>>,
              insights |-> InsightStatements(values, dates),
              stats |-> [trend |-> trend, average |-> avg,
                         min |-> MinOf(values), max |-> MaxOf(values)]]

\* ------------------------------------------------------------- request handlers

\* GET /api/forecast?days=..&minTransactions=..: the handler runs up to its query
StartForecast(r, u, qDays, qMin, ifNoneMatch) ==
    /\ EventLoopFree
    /\ Free(r)
    /\ started < MaxRequests
    /\ Events < MaxEvents
    /\ req' = [req EXCEPT ![r] = [Idle EXCEPT !.kind = "forecast", !.pc = "query",
                                   !.user = u, !.days = ParseDays(qDays),
                                   !.minTransactions = ParseMinTransactions(qMin),
                                   !.ifNoneMatch = ifNoneMatch, !.id = started + 1]]
    /\ started' = started + 1
    /\ Silent
    /\ UNCHANGED <<tables, caches, computedFrom, now, running, writes, faults, call, ret>>

\* GET /api/transactions?startDate=..&endDate=..&minAmount=..&type=..
StartTransactions(r, u, query, ifNoneMatch) ==
    /\ EventLoopFree
    /\ Free(r)
    /\ started < MaxRequests
    /\ Events < MaxEvents
    /\ req' = [req EXCEPT ![r] = [Idle EXCEPT !.kind = "transactions", !.pc = "query",
                                   !.user = u, !.query = query,
                                   !.ifNoneMatch = ifNoneMatch, !.id = started + 1]]
    /\ started' = started + 1
    /\ Silent
    /\ UNCHANGED <<tables, caches, computedFrom, now, running, writes, faults, call, ret>>

\* GET /api/creditscore
StartCreditScore(r, u, ifNoneMatch) ==
    /\ EventLoopFree
    /\ Free(r)
    /\ started < MaxRequests
    /\ Events < MaxEvents
    /\ req' = [req EXCEPT ![r] = [Idle EXCEPT !.kind = "creditscore", !.pc = "fetch",
                                   !.user = u,
                                   !.ifNoneMatch = ifNoneMatch, !.id = started + 1]]
    /\ started' = started + 1
    /\ Silent
    /\ UNCHANGED <<tables, caches, computedFrom, now, running, writes, faults, call, ret>>

\* the body each handler sends when its query fails
FetchErrorMessage(kind) ==
    CASE kind = "forecast" -> <<"Failed to fetch transactions from database">>
      [] kind = "creditscore" -> <<"Failed to fetch transactions">>
      [] OTHER -> <<"error">>

NoTransactionsFound == <<"No transactions found for this user">>

\* the database executes the query of a forecast or transactions handler: its result is
\* made of the rows stored at that moment, and is delivered to the handler later.  As a
\* write is, it is taken between the runs of the handlers: a running handler reads
\* neither the stored rows nor a result not yet delivered
DbSelect(r) ==
    /\ EventLoopFree
    /\ req[r].pc = "query"
    /\ req' = [req EXCEPT ![r].data = QueryResult(req[r].kind, req[r].user, req[r].query),
                          ![r].pc = "fetch"]
    /\ Silent
    /\ UNCHANGED <<tables, caches, computedFrom, now, running, started, writes, faults, call, ret>>

\* the query of a handler fails instead: fetchError
FetchError(r) ==
    /\ EventLoopFree
    /\ req[r].pc = (IF req[r].kind = "creditscore" THEN "fetch" ELSE "query")
    /\ Fails
    /\ Respond(r, [NoResp EXCEPT !.status = 500, !.message = FetchErrorMessage(req[r].kind)])
    /\ UNCHANGED <<tables, caches, computedFrom, now, started, writes, call, ret>>

\* the forecast handler is given the result of its query; no rows end the request with 400
ForecastFetched(r) ==
    /\ EventLoopFree
    /\ req[r].kind = "forecast" /\ req[r].pc = "fetch"
    /\ IF Len(req[r].data) = 0
       THEN Respond(r, [NoResp EXCEPT !.status = 400, !.message = NoTransactionsFound])
       ELSE /\ req' = [req EXCEPT ![r].pc = "hasTransactionChanged"]
            /\ running' = r
            /\ Silent
    /\ UNCHANGED <<tables, caches, computedFrom, now, started, writes, faults, call, ret>>

\* the transactions handler is given the result of its query; no rows are answered with an
\* empty list
TransactionsFetched(r) ==
    /\ EventLoopFree
    /\ req[r].kind = "transactions" /\ req[r].pc = "fetch"
    /\ IF Len(req[r].data) = 0
       THEN Respond(r, [NoResp EXCEPT !.status = 200])
       ELSE /\ req' = [req EXCEPT ![r].pc = "hasTransactionChanged"]
            /\ running' = r
            /\ Silent
    /\ UNCHANGED <<tables, caches, computedFrom, now, started, writes, faults, call, ret>>

\* CacheService.hasTransactionChanged(userId, data), called by both handlers
hasTransactionChanged(r) ==
    /\ running = r
    /\ req[r].pc = "hasTransactionChanged"
    /\ LET userId      == req[r].user
           currentHash == HashOfQueryResult[req[r].data]
           cachedHash  == CachedHash(userId)
       IN  /\ transactionHashCache' = HashCacheAfter(userId, cachedHash, currentHash)
           /\ req' = [req EXCEPT ![r].cachedHash = cachedHash,
                                 ![r].hasChanged = HasChangedResult(cachedHash, currentHash),
                                 ![r].pc = "branch"]
    /\ Silent
    /\ UNCHANGED <<tables, forecastCache, computedFrom, classificationCache, now, running, started, writes, faults, call, ret>>

\* transactions.map(t => ({transaction_date, debit: t.debit ?? 0, credit: t.credit ?? 0}))
MlFormat(data) ==
    [i \in 1..Len(data) |->
        [transaction_date |-> data[i].transaction_date,
         debit |-> IF data[i].debit = Null THEN 0 ELSE data[i].debit,
         credit |-> IF data[i].credit = Null THEN 0 ELSE data[i].credit]]

\* forecast handler, if (!hasChanged) { cached? } else { invalidateForecast }
ForecastBranch(r) ==
    /\ running = r
    /\ req[r].kind = "forecast" /\ req[r].pc = "branch"
    /\ LET key == ForecastKey(req[r].user, req[r].days)
       IN  IF ~req[r].hasChanged
           THEN /\ forecastCache' = AfterGet(forecastCache, key)
                /\ computedFrom' = [k \in DOMAIN forecastCache' \cap DOMAIN computedFrom |->
                                       computedFrom[k]]
                /\ IF Has(forecastCache, key)
                   THEN Respond(r, [NoResp EXCEPT !.status = 200, !.cached = TRUE,
                                                  !.forecast = forecastCache[key].v])
                   ELSE /\ req' = [req EXCEPT ![r].pc = "validate"]
                        /\ Silent
                        /\ UNCHANGED running
           ELSE /\ forecastCache' = invalidateForecast(req[r].user)
                /\ computedFrom' = [k \in DOMAIN forecastCache' \cap DOMAIN computedFrom |->
                                       computedFrom[k]]
                /\ req' = [req EXCEPT ![r].pc = "validate"]
                /\ Silent
                /\ UNCHANGED running
    /\ UNCHANGED <<tables, transactionHashCache, classificationCache, now, started, writes, faults, call, ret>>

\* a client that repeats its request once when the first attempt fails
OutboundAfterForecastCallRetried(outbound) == outbound + 2

\* getCashflowForecast issues one axios.post and rethrows its failure: the number of
\* outbound requests of the handler after the call
OutboundAfterForecastCall(outbound) == outbound + 1

\* forecast handler, STEP 4 and the outbound call of STEP 6
ForecastValidate(r) ==
    /\ running = r
    /\ req[r].kind = "forecast" /\ req[r].pc = "validate"
    /\ IF Len(req[r].data) < req[r].minTransactions
       THEN Respond(r, [NoResp EXCEPT !.status = 400,
                                      !.message = <<"Insufficient data for forecasting",
                                                    req[r].minTransactions,
                                                    Len(req[r].data)>>])
       ELSE /\ req' = [req EXCEPT ![r].pc = "engine",
                                  ![r].outbound = OutboundAfterForecastCall(@)]
            /\ running' = 0
            /\ Silent
    /\ UNCHANGED <<tables, caches, computedFrom, now, started, writes, faults, call, ret>>

\* ------------------------------------------------------------ forecasting engine
\* the forecasts the engine answers with
EngineForecasts ==
    {<<[date |-> 1, predicted_cashflow |-> 100]>>,
     <<[date |-> 1, predicted_cashflow |-> 0 - 100]>>}

\* how the call of axios.post ends: it fails (timeout, connection refused, a status other
\* than 2xx), or response.data is not there, is null, or is an object whose property
\* forecast is not there or is the list of points
EngineReplies ==
    {[failure |-> f, body |-> "undefined", forecast |-> "undefined", points |-> <<>>] :
        f \in {"timeout", "refused", "status"}}
    \cup {[failure |-> "", body |-> b, forecast |-> "undefined", points |-> <<>>] :
             b \in {"undefined", "null", "object"}}
    \cup {[failure |-> "", body |-> "object", forecast |-> "array", points |-> p] :
             p \in EngineForecasts}

\* the replies tried on the forecast handler: the failures and one forecast
ForecastEngineReplies ==
    {reply \in EngineReplies :
        reply.forecast = "array" => reply.points[1].predicted_cashflow > 0}

\* the message of the TypeError thrown by reading a property of undefined or of null
CannotRead(value, property) ==
    <<"Cannot", "read", "properties", "of", value, "(reading", property>>

\* the message of the error the handler catches, word by word, <<>> when nothing is
\* thrown: the error getCashflowForecast throws, or the TypeError of the handler's first
\* read that fails, forecast.forecast.length in the forecast handler and
\* forecastResponse.forecast, then forecast.map, in the credit-score handler.  It is the
\* whole body of the answer, NODE_ENV not being "development" (no stack in the body)
ErrorMessage(kind, reply) ==
    CASE reply.failure = "timeout" ->
            <<"Failed", "to", "fetch", "forecast:", "ECONNABORTED", "timeout", "of",
              "15000ms", "exceeded">>
      [] reply.failure = "refused" ->
            <<"Failed", "to", "fetch", "forecast:", "ECONNREFUSED", "connect",
              "ECONNREFUSED">>
      [] reply.failure = "status" ->
            <<"Failed", "to", "fetch", "forecast:", "500", "Request", "failed", "with",
              "status", "code", "500">>
      [] reply.body # "object" -> CannotRead(reply.body, "forecast")
      [] reply.forecast # "array" ->
            CannotRead(reply.forecast, IF kind = "forecast" THEN "length" ELSE "map")
      [] OTHER -> <<>>

Includes(message, word) == \E i \in 1..Len(message) : message[i] = word

\* the status code the forecast handler's catch block picks
StatusCode(message) ==
    IF Includes(message, "timeout") \/ Includes(message, "ECONNREFUSED") THEN 503 ELSE 500

\* InsightService.generateInsights of each forecast, computed once
InsightsOfForecast ==
    [points \in EngineForecasts |->
        generateInsights([given |-> TRUE,
                          points |-> [i \in 1..Len(points) |->
                                         [date |-> points[i].date,
                                          value |-> points[i].predicted_cashflow]]])]

\* the response data the forecast handler builds from the engine's answer
ResponseData(r, reply) ==
    [forecast |-> reply.points,
     insight |-> <<InsightsOfForecast[reply.points]>>,
     transactionCount |-> Len(req[r].data),
     forecastDays |-> req[r].days,
     \* new Date().toISOString(): the clock's reading, equal for two answers built at
     \* the same reading
     generatedAt |-> now]

\* the forecast handler after await getCashflowForecast(txs, days)
ForecastEngineReply(r, reply) ==
    /\ EventLoopFree
    /\ req[r].kind = "forecast" /\ req[r].pc = "engine"
    /\ LET message == ErrorMessage("forecast", reply)
       IN  IF message = <<>>
           THEN /\ forecastCache' = Put(forecastCache, ForecastKey(req[r].user, req[r].days),
                                        ResponseData(r, reply), FORECAST_CACHE_TTL)
                /\ computedFrom' = [k \in DOMAIN forecastCache' |->
                                       IF k = ForecastKey(req[r].user, req[r].days)
                                       THEN req[r].data ELSE computedFrom[k]]
                /\ Respond(r, [NoResp EXCEPT !.status = 200,
                                             !.forecast = ResponseData(r, reply)])
                /\ UNCHANGED faults
           ELSE /\ Fails
                /\ Respond(r, [NoResp EXCEPT !.status = StatusCode(message),
                                             !.message = message])
                /\ UNCHANGED <<forecastCache, computedFrom>>
    /\ UNCHANGED <<tables, transactionHashCache, classificationCache, now, started, writes, call, ret>>

\* ------------------------------------------------------------------ credit score
\* the rows table transactions may hold for a user: nothing else reads or writes it
StoredRows ==
    UNION {[1..n -> {InsertedAmounts}] : n \in 0..MaxRows}

\* const sixMonthsAgo = new Date(); sixMonthsAgo.setMonth(sixMonthsAgo.getMonth() - 6):
\* the same day of the month six calendar months back, a day past the month's end
\* running into the next month, as the first day number a row's date is not before.
\* Day 0 is 1 January 1970, the day of time 0, and a row dated n is of day n
SixMonthsAgo ==
    LET today  == now \div 86400
        \* getFullYear(), getMonth() + 1, getDate() of today
        z      == today + 719468
        era    == z \div 146097
        doe    == z - era * 146097
        yoe    == (doe - doe \div 1460 + doe \div 36524 - doe \div 146096) \div 365
        doy    == doe - (365 * yoe + yoe \div 4 - yoe \div 100)
        mp     == (5 * doy + 2) \div 153
        day    == doy - (153 * mp + 2) \div 5 + 1
        month  == IF mp < 10 THEN mp + 3 ELSE mp - 9
        year   == yoe + era * 400 + (IF month <= 2 THEN 1 ELSE 0)
        \* the month and the year setMonth moves to
        month6 == IF month > 6 THEN month - 6 ELSE month + 6
        year6  == IF month > 6 THEN year ELSE year - 1
        \* the day number of the first day of that month
        y      == year6 - (IF month6 <= 2 THEN 1 ELSE 0)
        era6   == y \div 400
        yoe6   == y - era6 * 400
        doy6   == (153 * (IF month6 > 2 THEN month6 - 3 ELSE month6 + 9) + 2) \div 5
        first  == era6 * 146097 + yoe6 * 365 + yoe6 \div 4 - yoe6 \div 100 + doy6 - 719468
    IN  \* the time of day is kept: past midnight, a row of that day is before it
        first + day - 1 + (IF now % 86400 > 0 THEN 1 ELSE 0)

\* the credit-score handler's query returns the rows table transactions holds then and,
\* with rows, the engine is called
CreditFetched(r, amounts) ==
    /\ EventLoopFree
    /\ req[r].kind = "creditscore" /\ req[r].pc = "fetch"
    /\ LET data == SelectDateDebitCredit(RowsOf(amounts))
       IN  IF Len(data) = 0
           THEN Respond(r, [NoResp EXCEPT !.status = 400, !.message = NoTransactionsFound])
           ELSE /\ req' = [req EXCEPT ![r].data = data, ![r].pc = "engine",
                                      ![r].days = DefaultDays,
                                      ![r].outbound = OutboundAfterForecastCall(@)]
                /\ Silent
                /\ UNCHANGED running
    /\ UNCHANGED <<tables, caches, computedFrom, now, started, writes, faults, call, ret>>

\* the credit-score handler after await getCashflowForecast(txs, 30)
CreditEngineReply(r, reply) ==
    /\ EventLoopFree
    /\ req[r].kind = "creditscore" /\ req[r].pc = "engine"
    /\ LET message == ErrorMessage("creditscore", reply)
       IN  IF message = <<>>
           THEN /\ Respond(r, [NoResp EXCEPT
                                  !.status = 200,
                                  !.score = <<calculateCreditScore(MlFormat(req[r].data),
                                                                   reply.points,
                                                                   SixMonthsAgo)>>])
                /\ UNCHANGED faults
           ELSE /\ Fails
                /\ Respond(r, [NoResp EXCEPT !.status = 500, !.message = message])
    /\ UNCHANGED <<tables, caches, computedFrom, now, started, writes, call, ret>>

\* ------------------------------------------------------------------ classification
ClassifierOutcomes == {"ok", "error", "malformed"}

Pending == [state |-> "pending", outcome |-> "", predicted_category |-> "",
            classification_failed |-> FALSE]

\* ClassifierClient.predictCategory: what it returns, and whether it throws
predictCategory(outcome) ==
    IF outcome = "ok" THEN [threw |-> FALSE, value |-> "SALES"]
    ELSE [threw |-> FALSE, value |-> "UNCATEGORIZED"]

\* the async callback of data.map: try { predicted } catch { flagged sentinel }
ClassifyOne(outcome) ==
    LET predicted == predictCategory(outcome)
    IN  IF predicted.threw
        THEN [state |-> "fulfilled", outcome |-> outcome,
              predicted_category |-> "UNCATEGORIZED", classification_failed |-> TRUE]
        ELSE [state |-> "fulfilled", outcome |-> outcome,
              predicted_category |-> predicted.value, classification_failed |-> FALSE]

\* transactions handler, if (!hasChanged) { cached? } else { invalidateClassification },
\* then one categorizer call per row is issued
TransactionsBranch(r) ==
    /\ running = r
    /\ req[r].kind = "transactions" /\ req[r].pc = "branch"
    /\ LET key    == ClassificationKey(req[r].user)
           fanOut == /\ req' = [req EXCEPT ![r].pc = "classify",
                                           ![r].calls = [i \in 1..Len(req[r].data) |-> Pending],
                                           ![r].outbound = @ + Len(req[r].data)]
                     /\ running' = 0
                     /\ Silent
       IN  IF ~req[r].hasChanged
           THEN /\ classificationCache' = AfterGet(classificationCache, key)
                /\ IF Has(classificationCache, key)
                   THEN Respond(r, [NoResp EXCEPT !.status = 200, !.cached = TRUE,
                                       !.transactions = classificationCache[key].v,
                                       !.count = Len(classificationCache[key].v)])
                   ELSE fanOut
           ELSE /\ classificationCache' = invalidateClassification(req[r].user)
                /\ fanOut
    /\ UNCHANGED <<tables, transactionHashCache, forecastCache, computedFrom, now, started, writes, faults, call, ret>>

\* one categorizer call of the batch settles
ClassifierReply(r, i, outcome) ==
    /\ EventLoopFree
    /\ req[r].kind = "transactions" /\ req[r].pc = "classify"
    /\ i \in 1..Len(req[r].calls)
    /\ req[r].calls[i].state = "pending"
    /\ IF outcome = "ok" THEN UNCHANGED faults ELSE Fails
    /\ req' = [req EXCEPT ![r].calls[i] = ClassifyOne(outcome)]
    /\ Silent
    /\ UNCHANGED <<tables, caches, computedFrom, now, running, started, writes, call, ret>>

\* Promise.race: the first call to settle resolves the batch
FirstSettled(calls) == \E i \in 1..Len(calls) : calls[i].state = "fulfilled"

\* Promise.allSettled resolves
AllSettled(calls) == \A i \in 1..Len(calls) : calls[i].state = "fulfilled"

\* the rows the transactions handler returns and caches
ProcessedTransactions(r) ==
    [i \in 1..Len(req[r].calls) |->
        [id |-> req[r].data[i].id,
         transaction_date |-> req[r].data[i].transaction_date,
         debit |-> req[r].data[i].debit,
         credit |-> req[r].data[i].credit,
         predicted_category |-> req[r].calls[i].predicted_category,
         classification_failed |-> req[r].calls[i].classification_failed]]

\* CacheService.setClassification(userId, processedTransactions), whatever the batch holds
ClassificationCacheAfterJoin(r) ==
    Put(classificationCache, ClassificationKey(req[r].user),
        ProcessedTransactions(r), CLASSIFICATION_CACHE_TTL)

\* the transactions handler after await Promise.allSettled(...)
TransactionsJoin(r) ==
    /\ EventLoopFree
    /\ req[r].kind = "transactions" /\ req[r].pc = "classify"
    /\ AllSettled(req[r].calls)
    /\ classificationCache' = ClassificationCacheAfterJoin(r)
    /\ Respond(r, [NoResp EXCEPT !.status = 200,
                                 !.transactions = ProcessedTransactions(r),
                                 !.count = Len(ProcessedTransactions(r))])
    /\ UNCHANGED <<tables, transactionHashCache, forecastCache, computedFrom, now, started, writes, faults, call, ret>>

\* ------------------------------------------------------------------ specification
\* the stored rows change
DbWrite ==
    \/ \E u \in Users : DbInsert(u)
    \/ \E u \in Users, i \in 1..MaxRows, amt \in AmountChoices : DbUpdate(u, i, amt)

\* If-None-Match: not sent, or the ETag received last
IfNoneMatchChoices == {NoETag, etag}

\* a request arrives
Start ==
    \/ \E r \in Slots, u \in Users, query \in ForecastQueries,
          ifNoneMatch \in IfNoneMatchChoices :
           StartForecast(r, u, query.days, query.minTransactions, ifNoneMatch)
    \/ \E r \in Slots, u \in Users, query \in TransactionQueries,
          ifNoneMatch \in IfNoneMatchChoices :
           StartTransactions(r, u, query, ifNoneMatch)
    \/ \E r \in Slots, u \in Users, ifNoneMatch \in IfNoneMatchChoices :
           StartCreditScore(r, u, ifNoneMatch)

\* a handler takes its next step
Handle ==
    \/ \E r \in Slots : DbSelect(r)
    \/ \E r \in Slots : FetchError(r)
    \/ \E r \in Slots : ForecastFetched(r)
    \/ \E r \in Slots : TransactionsFetched(r)
    \/ \E r \in Slots, amounts \in StoredRows : CreditFetched(r, amounts)
    \/ \E r \in Slots : hasTransactionChanged(r)
    \/ \E r \in Slots : ForecastBranch(r)
    \/ \E r \in Slots : ForecastValidate(r)
    \/ \E r \in Slots, reply \in ForecastEngineReplies : ForecastEngineReply(r, reply)
    \/ \E r \in Slots, reply \in EngineReplies : CreditEngineReply(r, reply)
    \/ \E r \in Slots : TransactionsBranch(r)
    \/ \E r \in Slots, i \in 1..MaxRows, outcome \in ClassifierOutcomes :
           ClassifierReply(r, i, outcome)
    \/ \E r \in Slots : TransactionsJoin(r)

\* requests arrive and overlap while rows are written, time passes, the timer sweeps and
\* the caches are cleared
Next ==
    \/ DbWrite
    \/ Start
    \/ Handle
    \/ Tick
    \/ Sweep
    \/ ClearAll

Spec == Init /\ [][Next]_vars

\* ------------------------------------------------- CacheService called on its own
\* the data a caller stores: a payload stamped with the time it was generated
CachePayloads == {1, 2}

CacheDays == {7, DefaultDays}

\* the user ids the service is called with: userId is any string, and one id may be
\* another followed by an underscore and more
CacheUsers == {<<"a">>, <<"b">>, <<"a", "_", "b">>}

\* the transaction lists hasTransactionChanged is called with
HashInputs == {RowsOf(amounts) : amounts \in StoredRows}

\* this.generateTransactionHash(transactions) of each of these lists
HashOfInput == [transactions \in HashInputs |-> generateTransactionHash(transactions)]

\* the call is recorded with what it returned: <<v>> for a value, <<>> for undefined
Returned(fn, args, value, stored) ==
    /\ started < MaxCalls
    /\ started' = started + 1
    /\ call' = [fn |-> fn, args |-> args]
    /\ ret' = [done |-> TRUE, value |-> value, stored |-> stored]
    /\ UNCHANGED <<tables, now, req, running, sent, served, computedFrom, writes, faults, etag>>

\* CacheService.setForecast(userId, days, data)
CallSetForecast(userId, days, payload) ==
    LET data == [payload |-> payload, generatedAt |-> now]
    IN  /\ forecastCache' = Put(forecastCache, ForecastKey(userId, days), data,
                                FORECAST_CACHE_TTL)
        /\ Returned("setForecast", [userId |-> userId, days |-> days, data |-> data],
                    <<>>, FALSE)
        /\ UNCHANGED <<transactionHashCache, classificationCache>>

\* CacheService.getForecast(userId, days)
CallGetForecast(userId, days) ==
    LET key == ForecastKey(userId, days)
    IN  /\ forecastCache' = AfterGet(forecastCache, key)
        /\ Returned("getForecast", [userId |-> userId, days |-> days],
                    IF Has(forecastCache, key) THEN <<forecastCache[key].v>> ELSE <<>>,
                    key \in DOMAIN forecastCache)
        /\ UNCHANGED <<transactionHashCache, classificationCache>>

\* CacheService.setClassification(userId, data)
CallSetClassification(userId, payload) ==
    LET data == [payload |-> payload, generatedAt |-> now]
    IN  /\ classificationCache' = Put(classificationCache, ClassificationKey(userId), data,
                                      CLASSIFICATION_CACHE_TTL)
        /\ Returned("setClassification", [userId |-> userId, data |-> data],
                    <<>>, FALSE)
        /\ UNCHANGED <<transactionHashCache, forecastCache>>

\* CacheService.getClassification(userId)
CallGetClassification(userId) ==
    LET key == ClassificationKey(userId)
    IN  /\ classificationCache' = AfterGet(classificationCache, key)
        /\ Returned("getClassification", [userId |-> userId],
                    IF Has(classificationCache, key) THEN <<classificationCache[key].v>>
                    ELSE <<>>,
                    key \in DOMAIN classificationCache)
        /\ UNCHANGED <<transactionHashCache, forecastCache>>

\* CacheService.hasTransactionChanged(userId, transactions)
CallHasTransactionChanged(userId, transactions) ==
    LET currentHash == HashOfInput[transactions]
        cachedHash  == CachedHash(userId)
    IN  /\ transactionHashCache' = HashCacheAfter(userId, cachedHash, currentHash)
        /\ Returned("hasTransactionChanged",
                    [userId |-> userId, transactions |-> transactions],
                    <<HasChangedResult(cachedHash, currentHash)>>,
                    HashKey(userId) \in DOMAIN transactionHashCache)
        /\ UNCHANGED <<forecastCache, classificationCache>>

\* CacheService.invalidateForecast(userId)
CallInvalidateForecast(userId) ==
    /\ forecastCache' = invalidateForecast(userId)
    /\ Returned("invalidateForecast", [userId |-> userId], <<>>, FALSE)
    /\ UNCHANGED <<transactionHashCache, classificationCache>>

\* CacheService.invalidateClassification(userId)
CallInvalidateClassification(userId) ==
    /\ classificationCache' = invalidateClassification(userId)
    /\ Returned("invalidateClassification", [userId |-> userId], <<>>, FALSE)
    /\ UNCHANGED <<transactionHashCache, forecastCache>>

\* CacheService.clearAll()
CallClearAll ==
    /\ classificationCache' = flushAll(classificationCache)
    /\ forecastCache' = flushAll(forecastCache)
    /\ transactionHashCache' = flushAll(transactionHashCache)
    /\ Returned("clearAll", [userId |-> <<>>], <<>>,
                DOMAIN classificationCache \cup DOMAIN forecastCache
                    \cup DOMAIN transactionHashCache # {})

\* the methods of CacheService called in any order while time passes and the timer sweeps
NextCache ==
    \/ \E u \in CacheUsers, d \in CacheDays, p \in CachePayloads : CallSetForecast(u, d, p)
    \/ \E u \in CacheUsers, d \in CacheDays : CallGetForecast(u, d)
    \/ \E u \in CacheUsers, p \in CachePayloads : CallSetClassification(u, p)
    \/ \E u \in CacheUsers : CallGetClassification(u)
    \/ \E u \in CacheUsers, t \in HashInputs : CallHasTransactionChanged(u, t)
    \/ \E u \in CacheUsers : CallInvalidateForecast(u)
    \/ \E u \in CacheUsers : CallInvalidateClassification(u)
    \/ CallClearAll
    \/ Tick
    \/ Sweep

SpecCache == Init /\ [][NextCache]_vars

\* -------------------------------------------------- the pure functions on their own
SeqsUpTo(S, n) == UNION {[1..k -> S] : k \in 0..n}

\* the day sixMonthsAgo falls on; transactions are dated the day before or that day
SixMonthsAgoDay == 2

ScoreRows ==
    {[transaction_date |-> 1, debit |-> 60000, credit |-> Null],
     [transaction_date |-> 2, debit |-> 0, credit |-> 20000],
     [transaction_date |-> 2, debit |-> 60000, credit |-> Null],
     [transaction_date |-> 2, debit |-> 60000, credit |-> 100000]}

ForecastCashflows == {0 - 10, 0, 10, 30}

ForecastsUpTo(n) ==
    {[i \in 1..Len(vs) |-> [date |-> i, predicted_cashflow |-> vs[i]]] :
        vs \in SeqsUpTo(ForecastCashflows, n)}

ScoreCalls ==
    {[fn |-> "calculateCreditScore",
      args |-> [transactions |-> t, forecast |-> f, sixMonthsAgo |-> SixMonthsAgoDay]] :
        t \in SeqsUpTo(ScoreRows, MaxScoreTxns), f \in ForecastsUpTo(MaxForecastPoints)}

SeriesValues == {0 - 50, 0 - 20, 0, 50, 100}

InsightCalls ==
    {[fn |-> "generateInsights", args |-> [predictions |-> [given |-> FALSE, points |-> <<>>]]]}
    \cup {[fn |-> "generateInsights",
           args |-> [predictions |->
                        [given |-> TRUE,
                         points |-> [i \in 1..Len(vs) |-> [date |-> i, value |-> vs[i]]]]]] :
             vs \in SeqsUpTo(SeriesValues, MaxSeries)}

HashAmounts == {Null, 0, 5, 50, 100}

\* rows as select("*") returns them and as the forecast handler's projection, without id
HashRowsUpTo(n) ==
    {[i \in 1..Len(as) |-> [id |-> IF withId THEN i ELSE Undefined, transaction_date |-> i,
                            debit |-> as[i][1], credit |-> as[i][2]]] :
        as \in SeqsUpTo(HashAmounts \X HashAmounts, n), withId \in BOOLEAN}

HashCalls ==
    {[fn |-> "generateTransactionHash", args |-> [transactions |-> t]] :
        t \in HashRowsUpTo(MaxHashRows)}

\* the function returns; nothing else is read or written
Evaluated(value) ==
    /\ ~ret.done
    /\ ret' = [done |-> TRUE, value |-> <<value>>, stored |-> FALSE]
    /\ UNCHANGED <<tables, caches, now, req, running, sent, served, computedFrom, started, writes, faults, call, etag>>

EvalCreditScore ==
    /\ call.fn = "calculateCreditScore"
    /\ Evaluated(calculateCreditScore(call.args.transactions, call.args.forecast,
                                      call.args.sixMonthsAgo))

EvalInsights ==
    /\ call.fn = "generateInsights"
    /\ Evaluated(generateInsights(call.args.predictions))

EvalHash ==
    /\ call.fn = "generateTransactionHash"
    /\ Evaluated(generateTransactionHash(call.args.transactions))

InitPure ==
    /\ Constructed
    /\ call \in ScoreCalls \cup InsightCalls \cup HashCalls
    /\ ret = NoRet

NextPure ==
    \/ EvalCreditScore
    \/ EvalInsights
    \/ EvalHash

SpecPure == InitPure /\ [][NextPure]_vars

\* ------------------------------------------------------------------ properties
\* the stored rows a classified row was made from
RowOf(c) == [id |-> c.id, transaction_date |-> c.transaction_date,
             debit |-> c.debit, credit |-> c.credit]

RowsOfClassified(cs) == [i \in 1..Len(cs) |-> RowOf(cs[i])]

\* the rows the data of a response served from the cache was computed from
SourceOf(s) ==
    IF s.from.kind = "forecast"
    THEN computedFrom[ForecastKey(s.from.user, s.from.days)]
    ELSE RowsOfClassified(s.resp.transactions)

ForecastKeysOf(u) == {k \in DOMAIN forecastCache : StartsWith(k, ForecastPrefix(u))}

\* the status that goes out for an answer of status 200: 200 with the body, or 304 without
\* it to a request whose If-None-Match names that very body
GoesOutAsOk(s) ==
    /\ s.resp.status = 200
    /\ s.written = (IF s.from.ifNoneMatch = ETagOf(s.resp) THEN 304 ELSE 200)

\* C1: a response served with cached = true was computed from rows whose fingerprint
\* equals the fingerprint of the rows the serving request read.
C1_CachedResultIsOfReadRows ==
    sent.resp.cached =>
        HashOfQueryResult[SourceOf(sent)]
            = HashOfQueryResult[sent.from.data]

\* C2: the step that follows a "changed" answer of hasTransactionChanged leaves the
\* user with no forecast entry and no classification entry, in both handlers.
C2_ChangedInvalidatesBothNamespaces ==
    [][\A r \in Slots :
          (req[r].pc = "branch" /\ req[r].hasChanged /\ req'[r].pc # "branch") =>
              /\ \A k \in DOMAIN forecastCache' : ~StartsWith(k, ForecastPrefix(req[r].user))
              /\ ClassificationKey(req[r].user) \notin DOMAIN classificationCache']_vars

\* C3: no outbound call is issued by a forecast or transactions request that arrived after
\* the same had been asked and answered from the rows stored now, nothing having expired
\* since.
C3_UnchangedRowsAreServedFromCache ==
    [][\A r \in Slots :
          (req'[r].outbound > req[r].outbound
              /\ req'[r].kind \in {"forecast", "transactions"}) =>
              \A e \in served : ~(e[1] = Asked(req'[r]) /\ e[2] < req'[r].id)]_vars

\* C4: while a request has updated the fingerprint and its invalidation is pending, every
\* step is that request's own, and its next step leaves the user's entries of the
\* handler's namespace removed: the update and the invalidation are one atomic step.
C4_FingerprintWriteAndInvalidationAtomic ==
    [][\A r \in Slots :
          (req[r].pc = "branch" /\ req[r].hasChanged) =>
              /\ running = r
              /\ \A q \in Slots \ {r} : req'[q] = req[q]
              /\ req'[r].pc # "branch"
              /\ tables' = tables
              /\ req[r].kind = "forecast" =>
                     \A k \in DOMAIN forecastCache' :
                         ~StartsWith(k, ForecastPrefix(req[r].user))
              /\ req[r].kind = "transactions" =>
                     ClassificationKey(req[r].user) \notin DOMAIN classificationCache']_vars

\* a second request is in flight while one has its invalidation pending and stale entries
C4_Witness ==
    \E r \in Slots, q \in Slots :
        /\ q # r
        /\ req[r].pc = "branch" /\ req[r].hasChanged /\ req[r].cachedHash # ""
        /\ req[q].pc \in {"query", "fetch", "engine", "classify"}
        /\ req[q].user = req[r].user
        /\ \/ req[r].kind = "forecast" /\ ForecastKeysOf(req[r].user) # {}
           \/ req[r].kind = "transactions"
                  /\ ClassificationKey(req[r].user) \in DOMAIN classificationCache

\* C5: hasTransactionChanged called for a user with no fingerprint entry (never seen,
\* expired or cleared) returns true and records the fingerprint of the rows it was given.
C5_NoFingerprintMeansChanged ==
    [][\A r \in Slots :
          (req[r].pc = "hasTransactionChanged" /\ req'[r].pc = "branch"
              /\ ~Has(transactionHashCache, HashKey(req[r].user))) =>
              /\ req'[r].hasChanged
              /\ HashKey(req[r].user) \in DOMAIN transactionHashCache'
              /\ transactionHashCache'[HashKey(req[r].user)].v
                     = HashOfQueryResult[req[r].data]
              /\ ~(transactionHashCache'[HashKey(req[r].user)].t < now')]_vars

\* a fingerprint recorded anew after the earlier entry of the user expired
C5_Witness ==
    \E r \in Slots :
        /\ req[r].pc = "branch" /\ req[r].cachedHash = "" /\ req[r].hasChanged
        /\ now > TRANSACTION_HASH_TTL
        /\ transactionHashCache[HashKey(req[r].user)].t = now + TRANSACTION_HASH_TTL
        /\ req[r].kind = "forecast"
        /\ \E k \in ForecastKeysOf(req[r].user) : forecastCache[k].t < now

\* C6: for a user with a recorded fingerprint, hasTransactionChanged returns true exactly
\* when the fingerprint of the transactions differs from the recorded one; afterwards the
\* recorded fingerprint is that of the transactions, and the entries of the other users
\* are as before.
C6_ChangedIffFingerprintDiffers ==
    [][(started' = started + 1 /\ call'.fn = "hasTransactionChanged"
           /\ Has(transactionHashCache, HashKey(call'.args.userId))) =>
           LET key == HashKey(call'.args.userId)
               fp  == HashOfInput[call'.args.transactions]
           IN  /\ ret'.value = <<fp # transactionHashCache[key].v>>
               /\ key \in DOMAIN transactionHashCache'
               /\ transactionHashCache'[key].v = fp
               /\ DOMAIN transactionHashCache' = DOMAIN transactionHashCache
               /\ \A k \in DOMAIN transactionHashCache \ {key} :
                      transactionHashCache'[k] = transactionHashCache[k]]_vars

\* a changed fingerprint replaced the recorded, unexpired one while another user has an
\* entry
C6_Witness ==
    /\ call.fn = "hasTransactionChanged" /\ ret.done
    /\ ret.value = <<TRUE>> /\ ret.stored
    /\ now <= TRANSACTION_HASH_TTL
    /\ \E u \in CacheUsers \ {call.args.userId} : HashKey(u) \in DOMAIN transactionHashCache

\* C7: a call to the forecasting engine is in flight only for a request that read at
\* least the minimum required number of rows.
C7_NoEngineCallBelowMinimum ==
    \A r \in Slots : req[r].pc = "engine" => Len(req[r].data) >= MinimumRequired

\* C8: a computed transactions response holds one row per row read, in the order read,
\* and exactly the rows whose categorizer call failed or was malformed carry the
\* sentinel category together with classification_failed = true.
C8_FailedRowsAreFlagged ==
    (sent.from.kind = "transactions" /\ sent.resp.status = 200 /\ ~sent.resp.cached
        /\ Len(sent.from.data) > 0) =>
        /\ Len(sent.resp.transactions) = Len(sent.from.data)
        /\ \A i \in 1..Len(sent.from.data) :
               /\ RowOf(sent.resp.transactions[i]) = sent.from.data[i]
               /\ (sent.from.calls[i].outcome # "ok") <=>
                      (/\ sent.resp.transactions[i].predicted_category = "UNCATEGORIZED"
                       /\ sent.resp.transactions[i].classification_failed)
               /\ (sent.from.calls[i].outcome = "ok") =>
                      ~sent.resp.transactions[i].classification_failed

\* C9: a transactions request leaves its classification stage, and a classification
\* entry is written, only in a step taken when every categorizer call of the batch has
\* settled; the answer is then a 200 with one row per row read, failed calls included
\* (sent as 304 Not Modified to a request whose If-None-Match names that body).
C9_JoinAfterAllSettled ==
    [][/\ \A r \in Slots :
             (req[r].pc = "classify" /\ req'[r].pc # "classify") =>
                 /\ \A i \in 1..Len(req[r].calls) : req[r].calls[i].state = "fulfilled"
                 /\ Len(req[r].calls) = Len(req[r].data)
                 /\ sent'.from = req[r]
                 /\ GoesOutAsOk(sent')
                 /\ sent'.resp.count = Len(req[r].data)
                 /\ ClassificationKey(req[r].user) \in DOMAIN classificationCache'
                 /\ ~(classificationCache'[ClassificationKey(req[r].user)].t < now')
                 /\ classificationCache'[ClassificationKey(req[r].user)].v
                        = sent'.resp.transactions
       /\ \A k \in DOMAIN classificationCache' :
             (k \notin DOMAIN classificationCache
                 \/ classificationCache'[k] # classificationCache[k]) =>
                 \E r \in Slots :
                     /\ req[r].pc = "classify"
                     /\ k = ClassificationKey(req[r].user)
                     /\ \A i \in 1..Len(req[r].calls) :
                            req[r].calls[i].state = "fulfilled"]_vars

\* a batch of two calls, one failed, answered with both rows
C9_Witness ==
    /\ sent.from.kind = "transactions" /\ sent.written = 200 /\ ~sent.resp.cached
    /\ Len(sent.from.calls) = 2
    /\ sent.resp.count = 2
    /\ sent.from.calls[1].outcome = "error"
    /\ sent.from.calls[2].outcome = "ok"

\* C10: a forecast request whose engine call fails is sent a 500 or a 503 and writes no
\* forecast entry, and a request with unchanged rows that finds no entry for its user and
\* horizon goes on to the engine instead of answering from the cache.
C10_EngineFailureIsNotCached ==
    [][/\ \A r \in Slots :
             (req[r].kind = "forecast" /\ req[r].pc = "engine" /\ req'[r].pc = "idle"
                 /\ sent'.resp.forecast = NoData) =>
                 /\ sent'.written \in {500, 503}
                 /\ ~sent'.resp.cached
                 /\ forecastCache' = forecastCache
       /\ \A r \in Slots :
             (req[r].kind = "forecast" /\ req[r].pc = "branch" /\ ~req[r].hasChanged
                 /\ ~Has(forecastCache, ForecastKey(req[r].user, req[r].days))) =>
                 req'[r].pc = "validate"
       /\ \A r \in Slots :
             (req[r].kind = "forecast" /\ req[r].pc = "validate"
                 /\ Len(req[r].data) >= req[r].minTransactions) =>
                 req'[r].pc = "engine" /\ req'[r].outbound = 1]_vars

\* C11: a forecast request has at most one outbound call to the forecasting engine: exactly
\* one once it waits for the engine and when it is answered after that wait, whatever the
\* engine's reply, and none when it is answered before (from the cache, or with an error).
C11_OneEngineCallPerForecastRequest ==
    /\ \A r \in Slots :
           req[r].kind = "forecast" =>
               req[r].outbound = (IF req[r].pc = "engine" THEN 1 ELSE 0)
    /\ sent.from.kind = "forecast" =>
           /\ sent.from.outbound = (IF sent.from.pc = "engine" THEN 1 ELSE 0)
           /\ sent.resp.cached => sent.from.outbound = 0
           /\ (sent.resp.status = 200 /\ ~sent.resp.cached) => sent.from.outbound = 1
           /\ sent.resp.status \in {500, 503} => sent.from.pc \in {"query", "engine"}

\* a forecast request answered 503 after its single call to the engine timed out
C11_Witness ==
    /\ sent.from.kind = "forecast" /\ sent.from.pc = "engine"
    /\ sent.written = 503
    /\ sent.from.outbound = 1

\* the time-to-live of stamped data has not elapsed
WithinTtl(data, ttl) == now <= data.generatedAt + ttl

\* what get must return for a key of a cache of stamped data
Expected(cache, key, ttl) ==
    IF key \in DOMAIN cache /\ WithinTtl(cache[key].v, ttl) THEN <<cache[key].v>> ELSE <<>>

\* C12: in the forecast and the classification cache a set stores the data under its key,
\* a get returns the data stored last while its time-to-live has not elapsed since the set
\* and absent once it has, swept or not, and a stored entry stays until its time-to-live
\* elapses or it is overwritten, invalidated or cleared; in the fingerprint cache the
\* recorded fingerprint is compared while its entry is live and counts as absent after.
C12_GetAfterSetWithinTtl ==
    [][/\ (started' = started + 1 /\ call'.fn = "setForecast") =>
              LET key == ForecastKey(call'.args.userId, call'.args.days)
              IN  /\ call'.args.data.generatedAt = now
                  /\ Expected(forecastCache', key, FORECAST_CACHE_TTL) = <<call'.args.data>>
       /\ (started' = started + 1 /\ call'.fn = "setClassification") =>
              LET key == ClassificationKey(call'.args.userId)
              IN  /\ call'.args.data.generatedAt = now
                  /\ Expected(classificationCache', key, CLASSIFICATION_CACHE_TTL)
                         = <<call'.args.data>>
       /\ (started' = started + 1 /\ call'.fn = "getForecast") =>
              ret'.value = Expected(forecastCache,
                                    ForecastKey(call'.args.userId, call'.args.days),
                                    FORECAST_CACHE_TTL)
       /\ (started' = started + 1 /\ call'.fn = "getClassification") =>
              ret'.value = Expected(classificationCache,
                                    ClassificationKey(call'.args.userId),
                                    CLASSIFICATION_CACHE_TTL)
       /\ (started' = started + 1 /\ call'.fn = "hasTransactionChanged") =>
              LET key == HashKey(call'.args.userId)
                  fp  == HashOfInput[call'.args.transactions]
              IN  /\ ret'.value = <<
                         IF key \in DOMAIN transactionHashCache
                                /\ now <= transactionHashCache[key].t
                         THEN fp # transactionHashCache[key].v ELSE TRUE >>
                  /\ \/ transactionHashCache' = transactionHashCache
                     \/ transactionHashCache'[key].t = now + TRANSACTION_HASH_TTL
       /\ \A key \in DOMAIN forecastCache :
              (/\ now' <= forecastCache[key].v.generatedAt + FORECAST_CACHE_TTL
               /\ ~(started' = started + 1
                       /\ call'.fn \in {"setForecast", "invalidateForecast", "clearAll"})) =>
                  /\ key \in DOMAIN forecastCache'
                  /\ forecastCache'[key] = forecastCache[key]
       /\ \A key \in DOMAIN classificationCache :
              (/\ now' <= classificationCache[key].v.generatedAt + CLASSIFICATION_CACHE_TTL
               /\ ~(started' = started + 1
                       /\ call'.fn \in {"setClassification", "invalidateClassification",
                                        "clearAll"})) =>
                  /\ key \in DOMAIN classificationCache'
                  /\ classificationCache'[key] = classificationCache[key]]_vars

\* getForecast found its key still stored, not yet swept, and returned absent
C12_Witness ==
    /\ call.fn = "getForecast"
    /\ ret.done /\ ret.stored
    /\ ret.value = <<>>

\* C20: every call of hasTransactionChanged leaves the user's fingerprint entry holding the
\* fingerprint of the transactions given, with its time-to-live restarted at the call.
C20_FingerprintWrittenOnEveryCall ==
    [][(started' = started + 1 /\ call'.fn = "hasTransactionChanged") =>
           LET key == HashKey(call'.args.userId)
           IN  /\ key \in DOMAIN transactionHashCache'
               /\ transactionHashCache'[key].v = HashOfInput[call'.args.transactions]
               /\ transactionHashCache'[key].t = now + TRANSACTION_HASH_TTL]_vars

\* calculateCreditScore has returned
ScoreReturned == call.fn = "calculateCreditScore" /\ ret.done

Range(seq) == {seq[i] : i \in 1..Len(seq)}

NegativeFactors ==
    {"Low transaction frequency in last 6 months", "Multiple large debit transactions",
     "Low average monthly credit", "Total debits exceed credits",
     "Negative predicted cashflow trend", "High volatility in predicted cashflow"}

PositiveFactors == {"Positive predicted cashflow trend", "Good credit behavior observed"}

\* C13: the score calculateCreditScore returns is an integer from 0 to 100, for every
\* transaction list and forecast, an empty recent window and an empty forecast included.
C13_ScoreWithinZeroAndHundred ==
    ScoreReturned => ret.value[1].score \in 0..100

\* every negative rule fired on a list with no sixth recent transaction: -5 before the clamp
C13_Witness ==
    /\ ScoreReturned
    /\ ScoreBeforeClamp(call.args.transactions, ForecastValues(call.args.forecast),
                        call.args.sixMonthsAgo) < 0
    /\ ret.value[1].score = 0

\* none of the negative rules applies to the arguments, as the rules are stated
NoNegativeRuleApplies ==
    LET recent == RecentTxns(call.args.transactions, call.args.sixMonthsAgo)
        values == ForecastValues(call.args.forecast)
    IN  /\ Len(recent) >= 5
        /\ Cardinality({i \in 1..Len(recent) :
                           recent[i].debit # Null /\ recent[i].debit > 50000}) <= 3
        /\ Sum(Credits(recent)) >= 20000 * Len(recent)
        /\ Sum(Debits(recent)) <= Sum(Credits(recent))
        /\ Sum(values) > 0
        /\ ~HighForecastVolatility(values)

\* C14: when no negative rule applies the score is 110 before the clamp and 100 after,
\* and the factors are a single positive statement.
C14_NoNegativeRuleScoresHundred ==
    (ScoreReturned /\ NoNegativeRuleApplies) =>
        /\ ScoreBeforeClamp(call.args.transactions, ForecastValues(call.args.forecast),
                            call.args.sixMonthsAgo) = 110
        /\ ret.value[1].score = 100
        /\ Len(ret.value[1].factors) = 1
        /\ ret.value[1].factors[1] \in PositiveFactors

\* exactly five recent transactions with a mean credit of exactly 20000 scored 100
C14_Witness ==
    /\ ScoreReturned /\ NoNegativeRuleApplies
    /\ Len(call.args.transactions) = 5
    /\ \A i \in 1..5 : call.args.transactions[i].credit = 20000
    /\ ret.value[1].score = 100

\* C15: "Good credit behavior observed" is among the factors exactly when no negative
\* factor is.
C15_GoodBehaviorIffNoNegativeFactor ==
    ScoreReturned =>
        (("Good credit behavior observed" \in Range(ret.value[1].factors))
            <=> (Range(ret.value[1].factors) \cap NegativeFactors = {}))

\* generateInsights has returned
InsightsReturned == call.fn = "generateInsights" /\ ret.done

\* C16: generateInsights returns for every series: the fixed no-data result with no
\* insights for a missing or empty one, and a summary, statements and the four statistics
\* for every non-empty one.
C16_GenerateInsightsTotal ==
    InsightsReturned =>
        LET predictions == call.args.predictions
            result      == ret.value[1]
        IN  IF ~predictions.given \/ Len(predictions.points) = 0
            THEN /\ result.summary = <<"No forecast data available">>
                 /\ Len(result.insights) = 0
                 /\ DOMAIN result.stats = {}
            ELSE /\ result.summary[1] = "Forecast from"
                 /\ Len(result.insights) >= 1
                 /\ DOMAIN result.stats = {"trend", "average", "min", "max"}

\* a series of one point got its statements
C16_Witness ==
    /\ InsightsReturned
    /\ call.args.predictions.given
    /\ Len(call.args.predictions.points) = 1
    /\ Len(ret.value[1].insights) >= 1

TrendTexts == {TrendUp, TrendDown, TrendFlat}
LiquidityTexts == {AverageNegative, AverageBelowStart, AveragePositive}
NegativePeriodTexts == {NegativePeriods, NoNegativePeriods}
VolatilityTexts == {VolatilityHigh, VolatilityLow}

\* generateInsights has returned for a non-empty series
SeriesAnalysed ==
    InsightsReturned /\ call.args.predictions.given /\ Len(call.args.predictions.points) > 0

\* the indices of the negative values of the series
NegativeIndices ==
    {i \in 1..Len(call.args.predictions.points) : call.args.predictions.points[i].value < 0}

\* the statement is the burn rate: the mean of the absolute values of the negative entries
IsBurnRate(statement) ==
    /\ statement[1] = BurnText
    /\ statement[2] * Cardinality(NegativeIndices)
           = statement[3] * Sum([i \in 1..Len(call.args.predictions.points) |->
                                   IF i \in NegativeIndices
                                   THEN Abs(call.args.predictions.points[i].value) ELSE 0])

\* C17 as claimed: one statement each for trend, liquidity, negative periods, volatility and
\* peak/trough, in this order, then the burn rate exactly when a value is negative.
C17_OneStatementPerRule ==
    SeriesAnalysed =>
        LET insights == ret.value[1].insights
            burn     == IF NegativeIndices # {} THEN 1 ELSE 0
        IN  /\ Len(insights) = 5 + burn
            /\ insights[1][1] \in TrendTexts
            /\ insights[2][1] \in LiquidityTexts
            /\ insights[3][1] \in NegativePeriodTexts
            /\ insights[4][1] \in VolatilityTexts
            /\ insights[5][1] \in {PeakText, LowText}
            /\ burn = 1 => IsBurnRate(insights[6])

\* C17 amended: one statement each for trend, liquidity, negative periods and volatility,
\* then one for the peak and one for the trough, then the burn rate exactly when a value is
\* negative.
C17_StatementsInOrder ==
    SeriesAnalysed =>
        LET insights == ret.value[1].insights
            burn     == IF NegativeIndices # {} THEN 1 ELSE 0
        IN  /\ Len(insights) = 6 + burn
            /\ insights[1][1] \in TrendTexts
            /\ insights[2][1] \in LiquidityTexts
            /\ insights[3][1] \in NegativePeriodTexts
            /\ insights[4][1] \in VolatilityTexts
            /\ insights[5][1] = PeakText
            /\ insights[6][1] = LowText
            /\ burn = 1 => IsBurnRate(insights[7])

\* the series 100, 50, -20: seven statements, the last a burn rate of 20
C17_Witness ==
    /\ SeriesAnalysed
    /\ [i \in 1..Len(call.args.predictions.points) |-> call.args.predictions.points[i].value]
           = <<100, 50, 0 - 20>>
    /\ Len(ret.value[1].insights) = 7
    /\ ret.value[1].insights[1][1] = TrendDown
    /\ ret.value[1].insights[5] = <<PeakText, 1, 100>>
    /\ ret.value[1].insights[6] = <<LowText, 3, 0 - 20>>
    /\ ret.value[1].insights[7] = <<BurnText, 20, 1>>

\* the transactions with the debit or the credit of row i set to amount
WithAmount(transactions, i, field, amount) ==
    IF field = "debit" THEN [transactions EXCEPT ![i].debit = amount]
    ELSE [transactions EXCEPT ![i].credit = amount]

\* C19: for a non-empty transaction list, setting the debit or the credit of one row to a
\* different amount gives a different fingerprint.
C19_AmountChangeChangesFingerprint ==
    (call.fn = "generateTransactionHash" /\ ret.done) =>
        \A i \in 1..Len(call.args.transactions), field \in {"debit", "credit"},
           amount \in HashAmounts :
            WithAmount(call.args.transactions, i, field, amount) # call.args.transactions =>
                generateTransactionHash(WithAmount(call.args.transactions, i, field, amount))
                    # ret.value[1]

\* the fingerprint of two rows, the first with a null debit
C19_Witness ==
    /\ call.fn = "generateTransactionHash" /\ ret.done
    /\ Len(call.args.transactions) = 2
    /\ call.args.transactions[1].debit = Null
    /\ call.args.transactions[1].credit = 100
    /\ ret.value[1] # "empty"
\* C21: invalidateForecast(u) removes the forecast entries of user u for every horizon and
\* leaves as they were the forecast entries of every other user, one whose id is u
\* followed by an underscore and more included, and all classification and fingerprint
\* entries.
C21_InvalidateForecastTouchesOneUser ==
    [][(started' = started + 1 /\ call'.fn = "invalidateForecast") =>
           LET u == call'.args.userId
           IN  /\ \A d \in CacheDays : ForecastKey(u, d) \notin DOMAIN forecastCache'
               /\ \A v \in CacheUsers \ {u}, d \in CacheDays :
                      ForecastKey(v, d) \in DOMAIN forecastCache =>
                          /\ ForecastKey(v, d) \in DOMAIN forecastCache'
                          /\ forecastCache'[ForecastKey(v, d)] = forecastCache[ForecastKey(v, d)]
               /\ classificationCache' = classificationCache
               /\ transactionHashCache' = transactionHashCache]_vars
\* 1 when the condition holds, 0 when not
Bracket(condition) == IF condition THEN 1 ELSE 0

\* the forecast standard deviation exceeds half the forecast mean: with n values of sum S,
\* the variance is the sum of (n*x - S)^2 over n^3 and the mean is S / n
SpreadAboveHalfMean(values) ==
    LET n == IF Len(values) = 0 THEN 1 ELSE Len(values)
        S == Sum(values)
    IN  \/ S < 0
        \/ 4 * Sum([i \in 1..Len(values) |-> (n * values[i] - S) * (n * values[i] - S)])
               > n * S * S

\* the conditions of the six rules of C22 on the arguments of the call, with the factor
\* each rule adds
StatedRules ==
    LET recent  == {i \in 1..Len(call.args.transactions) :
                       call.args.transactions[i].transaction_date >= call.args.sixMonthsAgo}
        debit   == [i \in 1..Len(call.args.transactions) |->
                       IF call.args.transactions[i].debit = Null THEN 0
                       ELSE call.args.transactions[i].debit]
        credit  == [i \in 1..Len(call.args.transactions) |->
                       IF call.args.transactions[i].credit = Null THEN 0
                       ELSE call.args.transactions[i].credit]
        only(f) == [i \in 1..Len(call.args.transactions) |-> IF i \in recent THEN f[i] ELSE 0]
        values  == [i \in 1..Len(call.args.forecast) |->
                       call.args.forecast[i].predicted_cashflow]
        count   == IF recent = {} THEN 1 ELSE Cardinality(recent)
    IN  [few      |-> Cardinality(recent) < 5,
         large    |-> Cardinality({i \in recent : debit[i] > 50000}) > 3,
         low      |-> Sum(only(credit)) < 20000 * count,
         exceed   |-> Sum(only(debit)) > Sum(only(credit)),
         positive |-> Sum(values) > 0,
         volatile |-> SpreadAboveHalfMean(values)]

\* C22: the score is 100 - 20*[fewer than 5 recent transactions] - 15*[more than 3 recent
\* debits above 50000] - 20*[mean recent credit < 20000] - 25*[total recent debit > total
\* recent credit] + (10 if the mean forecast > 0, else -15) - 10*[forecast standard
\* deviation > 0.5 * mean forecast], clamped to 0..100, and the factors are one entry per
\* rule that fired, in the order of the rules.
C22_ScoreIsSumOfRules ==
    ScoreReturned =>
        LET rule  == StatedRules
            total == 100 - 20 * Bracket(rule.few) - 15 * Bracket(rule.large)
                         - 20 * Bracket(rule.low) - 25 * Bracket(rule.exceed)
                         + (IF rule.positive THEN 10 ELSE 0 - 15)
                         - 10 * Bracket(rule.volatile)
        IN  /\ ret.value[1].score = (IF total < 0 THEN 0 ELSE IF total > 100 THEN 100 ELSE total)
            /\ ret.value[1].factors =
                   (IF rule.few THEN <<"Low transaction frequency in last 6 months">> ELSE <<>>)
                   \o (IF rule.large THEN <<"Multiple large debit transactions">> ELSE <<>>)
                   \o (IF rule.low THEN <<"Low average monthly credit">> ELSE <<>>)
                   \o (IF rule.exceed THEN <<"Total debits exceed credits">> ELSE <<>>)
                   \o (IF rule.positive THEN <<"Positive predicted cashflow trend">>
                       ELSE <<"Negative predicted cashflow trend">>)
                   \o (IF rule.volatile THEN <<"High volatility in predicted cashflow">>
                       ELSE <<>>)

\* five recent transactions, four of them large debits, with a forecast of mean zero:
\* large debits, low credit, debits above credits and a negative trend, 25 in all
C22_Witness ==
    /\ ScoreReturned
    /\ Len(call.args.transactions) = 5
    /\ ~StatedRules.few /\ StatedRules.large /\ StatedRules.low /\ StatedRules.exceed
    /\ ~StatedRules.positive /\ ~StatedRules.volatile
    /\ Len(call.args.forecast) > 0
    /\ ret.value[1].score = 25
    /\ Len(ret.value[1].factors) = 4
\* the values of the series generateInsights was called with
SeriesOfCall ==
    [i \in 1..Len(call.args.predictions.points) |-> call.args.predictions.points[i].value]

\* the largest and the smallest value of the series
Largest == CHOOSE v \in Range(SeriesOfCall) : \A w \in Range(SeriesOfCall) : w <= v

Smallest == CHOOSE v \in Range(SeriesOfCall) : \A w \in Range(SeriesOfCall) : v <= w

\* C23: for a non-empty series the volatility statement is the high-volatility one exactly
\* when max - min > 0.5 * mean and the low-volatility one otherwise; with a mean of exactly
\* 0, any non-zero spread is high and a zero spread is low.
C23_VolatilityAgainstHalfMean ==
    SeriesAnalysed =>
        LET statement == ret.value[1].insights[4][1]
            spread    == Largest - Smallest
        IN  /\ statement \in VolatilityTexts
            \* spread > 0.5 * (sum / n), both sides multiplied by 2 * n
            /\ (statement = VolatilityHigh)
                   <=> (2 * Len(SeriesOfCall) * spread > Sum(SeriesOfCall))
            /\ Sum(SeriesOfCall) = 0 => ((statement = VolatilityHigh) <=> (spread # 0))

\* the series -50, 50 has mean 0 and a spread of 100: high volatility
C23_Witness ==
    /\ SeriesAnalysed
    /\ SeriesOfCall = <<0 - 50, 50>>
    /\ ret.value[1].insights[4][1] = VolatilityHigh

\* C24: for a non-empty series the trend statement is the increasing one when
\* last - first > 0, the declining one when it is < 0 and the stable one only when the two
\* are equal, and the trend phrase of the summary names the same class.
C24_TrendStatementAndSummaryAgree ==
    SeriesAnalysed =>
        LET difference == SeriesOfCall[Len(SeriesOfCall)] - SeriesOfCall[1]
            statement  == ret.value[1].insights[1][1]
            phrase     == ret.value[1].summary[6]
        IN  /\ difference > 0 =>
                   statement = TrendUp /\ phrase = "positive upward trend"
            /\ difference < 0 =>
                   statement = TrendDown /\ phrase = "decline in projected cashflow"
            /\ difference = 0 =>
                   statement = TrendFlat /\ phrase = "steady cashflow movement"
            /\ statement = TrendFlat => SeriesOfCall[Len(SeriesOfCall)] = SeriesOfCall[1]

\* the series 0, 100, 0 ends where it starts: stable in the statement and in the summary
C24_Witness ==
    /\ SeriesAnalysed
    /\ SeriesOfCall = <<0, 100, 0>>
    /\ ret.value[1].insights[1][1] = TrendFlat
    /\ ret.value[1].summary[6] = "steady cashflow movement"

\* the date of the first point of the series whose value is v
FirstDateOf(v) ==
    LET points  == call.args.predictions.points
        holding == {i \in 1..Len(points) : points[i].value = v}
    IN  points[CHOOSE i \in holding : \A j \in holding : i <= j].date

\* C25: the peak and the trough reported are the maximum and the minimum of the series,
\* each with the date of the first point that holds the value.
C25_PeakAndTroughAtFirstOccurrence ==
    SeriesAnalysed =>
        /\ ret.value[1].insights[5] = <<PeakText, FirstDateOf(Largest), Largest>>
        /\ ret.value[1].insights[6] = <<LowText, FirstDateOf(Smallest), Smallest>>
        /\ ret.value[1].stats.max = Largest
        /\ ret.value[1].stats.min = Smallest

\* the series 100, 0, 100 reaches its maximum twice: the peak is dated at the first point
C25_Witness ==
    /\ SeriesAnalysed
    /\ SeriesOfCall = <<100, 0, 100>>
    /\ ret.value[1].insights[5] = <<PeakText, 1, 100>>
    /\ ret.value[1].insights[6] = <<LowText, 2, 0>>

\* C26: after clearAll the three caches are empty: a getForecast or getClassification that
\* follows returns absent, and a hasTransactionChanged that follows returns true, for
\* every user.
C26_ClearAllEmptiesEveryCache ==
    [][/\ (started' = started + 1 /\ call'.fn = "clearAll") =>
              /\ DOMAIN classificationCache' = {}
              /\ DOMAIN forecastCache' = {}
              /\ DOMAIN transactionHashCache' = {}
       /\ (call.fn = "clearAll" /\ started' = started + 1) =>
              /\ call'.fn \in {"getForecast", "getClassification"} => ret'.value = <<>>
              /\ call'.fn = "hasTransactionChanged" => ret'.value = <<TRUE>>]_vars

\* clearAll was called with entries stored, time having passed since, and left none
C26_Witness ==
    /\ call.fn = "clearAll"
    /\ ret.done /\ ret.stored
    /\ now > 0
    /\ DOMAIN classificationCache \cup DOMAIN forecastCache
           \cup DOMAIN transactionHashCache = {}

\* C27: a forecast request that read fewer rows than the minimum it asked for is answered
\* with the insufficient-data 400 error, whatever the caches hold.
C27_BelowMinimumIsRejected ==
    (/\ sent.from.kind = "forecast"
     /\ sent.from.pc \notin {"query", "fetch"}
     /\ Len(sent.from.data) < sent.from.minTransactions) =>
        /\ sent.resp.status = 400
        /\ ~sent.resp.cached
        /\ sent.from.pc = "validate"

\* C28: a forecast request that reads the rows whose fingerprint is the one recorded for
\* the user, while the forecast entry of its horizon, computed from these rows, has not
\* expired, is told the rows are unchanged and is served that entry, which stays stored.
C28_UnchangedRowsKeepLiveForecast ==
    [][/\ \A r \in Slots :
             LET user == req[r].user
                 key  == ForecastKey(user, req[r].days)
             IN  (/\ req[r].kind = "forecast"
                  /\ req[r].pc = "hasTransactionChanged" /\ req'[r].pc = "branch"
                  /\ HashKey(user) \in DOMAIN transactionHashCache
                  /\ transactionHashCache[HashKey(user)].v
                         = HashOfQueryResult[req[r].data]
                  /\ Has(forecastCache, key)
                  /\ computedFrom[key] = req[r].data) =>
                     ~req'[r].hasChanged
       /\ \A r \in Slots :
             LET key == ForecastKey(req[r].user, req[r].days)
             IN  (/\ req[r].kind = "forecast"
                  /\ req[r].pc = "branch" /\ req'[r].pc # "branch"
                  /\ ~req[r].hasChanged
                  /\ Has(forecastCache, key)) =>
                     /\ sent'.resp.cached
                     /\ sent'.resp.forecast = forecastCache[key].v
                     /\ key \in DOMAIN forecastCache'
                     /\ forecastCache'[key] = forecastCache[key]]_vars

\* C29: a forecast whose values are all equal never gets the high-volatility factor of
\* calculateCreditScore, whatever the sign of its mean.
C29_EqualForecastIsNotVolatile ==
    (/\ ScoreReturned
     /\ Len(call.args.forecast) > 0
     /\ \A i \in 1..Len(call.args.forecast) :
            call.args.forecast[i].predicted_cashflow
                = call.args.forecast[1].predicted_cashflow) =>
        "High volatility in predicted cashflow" \notin Range(ret.value[1].factors)

\* C30: a batch in which categorizer calls failed is cached as a successful one is, the
\* failed rows with the sentinel category; a later transactions request that reads the
\* rows whose fingerprint is the one recorded for the user, while the entry made from
\* these rows has not expired, is told they are unchanged and gets the entry's rows,
\* sentinel categories included, without a categorizer call (as 304 Not Modified when its
\* If-None-Match names that body), and the entry stays stored.
C30_FailedBatchIsCachedAndServed ==
    [][/\ \A r \in Slots :
             LET key == ClassificationKey(req[r].user)
             IN  (req[r].kind = "transactions" /\ req[r].pc = "classify"
                     /\ req'[r].pc # "classify") =>
                     /\ key \in DOMAIN classificationCache'
                     /\ classificationCache'[key].t = now + CLASSIFICATION_CACHE_TTL
                     /\ Len(classificationCache'[key].v) = Len(req[r].data)
                     /\ \A i \in 1..Len(req[r].data) :
                            /\ RowOf(classificationCache'[key].v[i]) = req[r].data[i]
                            /\ req[r].calls[i].outcome # "ok" =>
                                   classificationCache'[key].v[i].predicted_category
                                       = "UNCATEGORIZED"
       /\ \A r \in Slots :
             LET user == req[r].user
                 key  == ClassificationKey(user)
             IN  (/\ req[r].kind = "transactions"
                  /\ req[r].pc = "hasTransactionChanged" /\ req'[r].pc = "branch"
                  /\ HashKey(user) \in DOMAIN transactionHashCache
                  /\ transactionHashCache[HashKey(user)].v
                         = HashOfQueryResult[req[r].data]
                  /\ Has(classificationCache, key)
                  /\ RowsOfClassified(classificationCache[key].v) = req[r].data) =>
                     ~req'[r].hasChanged
       /\ \A r \in Slots :
             LET key == ClassificationKey(req[r].user)
             IN  (/\ req[r].kind = "transactions"
                  /\ req[r].pc = "branch" /\ req'[r].pc # "branch"
                  /\ ~req[r].hasChanged
                  /\ Has(classificationCache, key)) =>
                     /\ GoesOutAsOk(sent') /\ sent'.resp.cached
                     /\ sent'.resp.transactions = classificationCache[key].v
                     /\ sent'.from.outbound = 0
                     /\ req'[r].outbound = 0
                     /\ classificationCache' = classificationCache]_vars
====
